---------------------------- MODULE Spec2Model ----------------------------
(***************************************************************************)
(* Service-usage audit (newtest.py): the event sources returned by the     *)
(* Athena query are normalised to service names and reconciled with the    *)
(* list of approved services.                                              *)
(*                                                                         *)
(* A Python str is modelled as a sequence of one-character strings, so     *)
(* that replace, lower and startswith are computed character by character. *)
(***************************************************************************)
EXTENDS Integers, Sequences, FiniteSets, TLC

(***************************************************************************)
(* Bounds                                                                  *)
(***************************************************************************)
\* Number of rows the result paginator yields in one run.
MaxRows == 2

(***************************************************************************)
(* Python str operations                                                   *)
(***************************************************************************)
UpperCase == <<"A", "B", "C", "D", "E", "F", "G", "H", "I", "J", "K", "L", "M",
               "N", "O", "P", "Q", "R", "S", "T", "U", "V", "W", "X", "Y", "Z">>
LowerCase == <<"a", "b", "c", "d", "e", "f", "g", "h", "i", "j", "k", "l", "m",
               "n", "o", "p", "q", "r", "s", "t", "u", "v", "w", "x", "y", "z">>

\* str.lower() on one character.
lower_char(c) ==
  IF \E i \in 1..26 : UpperCase[i] = c
    THEN LowerCase[CHOOSE i \in 1..26 : UpperCase[i] = c]
    ELSE c

\* str.upper() on one character.
upper_char(c) ==
  IF \E i \in 1..26 : LowerCase[i] = c
    THEN UpperCase[CHOOSE i \in 1..26 : LowerCase[i] = c]
    ELSE c

\* str.lower()
lower(s) == [i \in 1..Len(s) |-> lower_char(s[i])]

\* str.startswith(prefix)
startswith(s, prefix) ==
  /\ Len(prefix) <= Len(s)
  /\ SubSeq(s, 1, Len(prefix)) = prefix

\* str.replace(old, ""): every non-overlapping occurrence of old, found left
\* to right, is removed (old is never empty here).
RECURSIVE replace(_, _)
replace(s, old) ==
  IF Len(s) < Len(old) THEN s
  ELSE IF startswith(s, old) THEN replace(SubSeq(s, Len(old) + 1, Len(s)), old)
  ELSE <<Head(s)>> \o replace(Tail(s), old)

(***************************************************************************)
(* Static tables                                                           *)
(***************************************************************************)
\* List of approved services.
approved_services ==
  << <<"A", "C", "M">>, <<"A", "C", "M", "P", "C", "A">>,
     <<"A", "c", "c", "e", "s", "s", "A", "n", "a", "l", "y", "z", "e", "r">>,
     <<"A", "p", "i", "G", "a", "t", "e", "w", "a", "y">>,
     <<"A", "p", "i", "G", "a", "t", "e", "w", "a", "y", "V", "2">>,
     <<"A", "p", "p", "C", "o", "n", "f", "i", "g">>, <<"A", "p", "p", "S", "t", "r", "e", "a", "m">>,
     <<"A", "t", "h", "e", "n", "a">>, <<"A", "u", "d", "i", "t", "M", "a", "n", "a", "g", "e", "r">>,
     <<"A", "u", "t", "o", "S", "c", "a", "l", "i", "n", "g">>, <<"B", "a", "c", "k", "u", "p">>,
     <<"B", "a", "t", "c", "h">>, <<"C", "a", "s", "s", "a", "n", "d", "r", "a">>,
     <<"C", "l", "o", "u", "d", "F", "o", "r", "m", "a", "t", "i", "o", "n">>,
     <<"C", "l", "o", "u", "d", "F", "r", "o", "n", "t">>,
     <<"C", "l", "o", "u", "d", "T", "r", "a", "i", "l">>,
     <<"C", "l", "o", "u", "d", "W", "a", "t", "c", "h">>, <<"C", "l", "o", "u", "d", "9">>,
     <<"C", "o", "d", "e", "D", "e", "p", "l", "o", "y">>, <<"C", "o", "n", "f", "i", "g">>,
     <<"D", "y", "n", "a", "m", "o", "D", "B">>, <<"E", "C", "2">>, <<"E", "C", "R">>,
     <<"E", "C", "S">>, <<"E", "F", "S">>,
     <<"E", "l", "a", "s", "t", "i", "c", "L", "o", "a", "d", "B", "a", "l", "a", "n", "c", "i", "n", "g", "V", "2">>,
     <<"E", "v", "e", "n", "t", "S", "c", "h", "e", "m", "a", "s">>, <<"E", "v", "e", "n", "t", "s">>,
     <<"G", "l", "u", "e">>, <<"G", "u", "a", "r", "d", "D", "u", "t", "y">>, <<"I", "A", "M">>,
     <<"I", "n", "s", "p", "e", "c", "t", "o", "r", "V", "2">>, <<"K", "M", "S">>,
     <<"K", "i", "n", "e", "s", "i", "s">>,
     <<"K", "i", "n", "e", "s", "i", "s", "A", "n", "a", "l", "y", "t", "i", "c", "s", "V", "2">>,
     <<"K", "i", "n", "e", "s", "i", "s", "F", "i", "r", "e", "h", "o", "s", "e">>,
     <<"L", "a", "m", "b", "d", "a">>, <<"M", "S", "K">>,
     <<"N", "e", "t", "w", "o", "r", "k", "F", "i", "r", "e", "w", "a", "l", "l">>,
     <<"N", "e", "t", "w", "o", "r", "k", "M", "a", "n", "a", "g", "e", "r">>,
     <<"O", "p", "e", "n", "S", "e", "a", "r", "c", "h">>,
     <<"Q", "u", "i", "c", "k", "S", "i", "g", "h", "t">>, <<"R", "D", "S">>,
     <<"R", "e", "d", "s", "h", "i", "f", "t">>, <<"R", "o", "u", "t", "e", "5", "3">>,
     <<"R", "o", "u", "t", "e", "5", "3", "R", "e", "s", "o", "l", "v", "e", "r">>, <<"S", "3">>,
     <<"S", "E", "S">>, <<"S", "N", "S">>, <<"S", "Q", "S">>, <<"S", "S", "M">>,
     <<"S", "e", "c", "r", "e", "t", "s", "M", "a", "n", "a", "g", "e", "r">>,
     <<"S", "e", "r", "v", "i", "c", "e", "D", "i", "s", "c", "o", "v", "e", "r", "y">>,
     <<"S", "t", "e", "p", "F", "u", "n", "c", "t", "i", "o", "n", "s">>, <<"W", "A", "F", "v", "2">>,
     <<"O", "r", "g", "a", "n", "i", "z", "a", "t", "i", "o", "n", "s">>,
     <<"R", "e", "s", "o", "u", "r", "c", "e", "G", "r", "o", "u", "p", "s">>,
     <<"S", "u", "p", "p", "o", "r", "t">>,
     <<"T", "r", "a", "n", "s", "f", "e", "r", "F", "a", "m", "i", "l", "y">>, <<"F", "S", "x">>,
     <<"C", "l", "o", "u", "d", "S", "h", "e", "l", "l">> >>

\* Mapping of eventSource prefixes to service names, in the insertion order
\* of the dict literal (the order in which .items() enumerates it).
service_prefixes ==
  << [prefix |-> <<"a", "c", "m">>, mapped_service |-> <<"A", "C", "M">>],
     [prefix |-> <<"a", "c", "m", "-", "p", "c", "a">>, mapped_service |-> <<"A", "C", "M", "P", "C", "A">>],
     [prefix |-> <<"a", "c", "c", "e", "s", "s", "-", "a", "n", "a", "l", "y", "z", "e", "r">>, mapped_service |-> <<"A", "c", "c", "e", "s", "s", "A", "n", "a", "l", "y", "z", "e", "r">>],
     [prefix |-> <<"a", "p", "i", "g", "a", "t", "e", "w", "a", "y">>, mapped_service |-> <<"A", "p", "i", "G", "a", "t", "e", "w", "a", "y">>],
     [prefix |-> <<"e", "x", "e", "c", "u", "t", "e", "-", "a", "p", "i">>, mapped_service |-> <<"A", "p", "i", "G", "a", "t", "e", "w", "a", "y">>],
     [prefix |-> <<"a", "p", "p", "c", "o", "n", "f", "i", "g">>, mapped_service |-> <<"A", "p", "p", "C", "o", "n", "f", "i", "g">>],
     [prefix |-> <<"a", "p", "p", "s", "t", "r", "e", "a", "m", "2">>, mapped_service |-> <<"A", "p", "p", "S", "t", "r", "e", "a", "m">>],
     [prefix |-> <<"a", "t", "h", "e", "n", "a">>, mapped_service |-> <<"A", "t", "h", "e", "n", "a">>],
     [prefix |-> <<"a", "u", "d", "i", "t", "m", "a", "n", "a", "g", "e", "r">>, mapped_service |-> <<"A", "u", "d", "i", "t", "M", "a", "n", "a", "g", "e", "r">>],
     [prefix |-> <<"a", "u", "t", "o", "s", "c", "a", "l", "i", "n", "g">>, mapped_service |-> <<"A", "u", "t", "o", "S", "c", "a", "l", "i", "n", "g">>],
     [prefix |-> <<"b", "a", "c", "k", "u", "p">>, mapped_service |-> <<"B", "a", "c", "k", "u", "p">>],
     [prefix |-> <<"b", "a", "t", "c", "h">>, mapped_service |-> <<"B", "a", "t", "c", "h">>],
     [prefix |-> <<"c", "a", "s", "s", "a", "n", "d", "r", "a">>, mapped_service |-> <<"C", "a", "s", "s", "a", "n", "d", "r", "a">>],
     [prefix |-> <<"c", "l", "o", "u", "d", "f", "o", "r", "m", "a", "t", "i", "o", "n">>, mapped_service |-> <<"C", "l", "o", "u", "d", "F", "o", "r", "m", "a", "t", "i", "o", "n">>],
     [prefix |-> <<"c", "l", "o", "u", "d", "f", "r", "o", "n", "t">>, mapped_service |-> <<"C", "l", "o", "u", "d", "F", "r", "o", "n", "t">>],
     [prefix |-> <<"c", "l", "o", "u", "d", "t", "r", "a", "i", "l">>, mapped_service |-> <<"C", "l", "o", "u", "d", "T", "r", "a", "i", "l">>],
     [prefix |-> <<"c", "l", "o", "u", "d", "w", "a", "t", "c", "h">>, mapped_service |-> <<"C", "l", "o", "u", "d", "W", "a", "t", "c", "h">>],
     [prefix |-> <<"m", "o", "n", "i", "t", "o", "r", "i", "n", "g">>, mapped_service |-> <<"C", "l", "o", "u", "d", "W", "a", "t", "c", "h">>],
     [prefix |-> <<"l", "o", "g", "s">>, mapped_service |-> <<"C", "l", "o", "u", "d", "W", "a", "t", "c", "h">>],
     [prefix |-> <<"c", "l", "o", "u", "d", "9">>, mapped_service |-> <<"C", "l", "o", "u", "d", "9">>],
     [prefix |-> <<"c", "o", "d", "e", "d", "e", "p", "l", "o", "y">>, mapped_service |-> <<"C", "o", "d", "e", "D", "e", "p", "l", "o", "y">>],
     [prefix |-> <<"c", "o", "n", "f", "i", "g">>, mapped_service |-> <<"C", "o", "n", "f", "i", "g">>],
     [prefix |-> <<"d", "y", "n", "a", "m", "o", "d", "b">>, mapped_service |-> <<"D", "y", "n", "a", "m", "o", "D", "B">>],
     [prefix |-> <<"e", "c", "2">>, mapped_service |-> <<"E", "C", "2">>],
     [prefix |-> <<"e", "l", "a", "s", "t", "i", "c", "l", "o", "a", "d", "b", "a", "l", "a", "n", "c", "i", "n", "g">>, mapped_service |-> <<"E", "C", "2">>],
     [prefix |-> <<"e", "c", "r">>, mapped_service |-> <<"E", "C", "R">>],
     [prefix |-> <<"e", "c", "s">>, mapped_service |-> <<"E", "C", "S">>],
     [prefix |-> <<"e", "l", "a", "s", "t", "i", "c", "f", "i", "l", "e", "s", "y", "s", "t", "e", "m">>, mapped_service |-> <<"E", "F", "S">>],
     [prefix |-> <<"e", "f", "s">>, mapped_service |-> <<"E", "F", "S">>],
     [prefix |-> <<"s", "c", "h", "e", "m", "a", "s">>, mapped_service |-> <<"E", "v", "e", "n", "t", "S", "c", "h", "e", "m", "a", "s">>],
     [prefix |-> <<"e", "v", "e", "n", "t", "s">>, mapped_service |-> <<"E", "v", "e", "n", "t", "s">>],
     [prefix |-> <<"g", "l", "u", "e">>, mapped_service |-> <<"G", "l", "u", "e">>],
     [prefix |-> <<"g", "u", "a", "r", "d", "d", "u", "t", "y">>, mapped_service |-> <<"G", "u", "a", "r", "d", "D", "u", "t", "y">>],
     [prefix |-> <<"i", "a", "m">>, mapped_service |-> <<"I", "A", "M">>],
     [prefix |-> <<"s", "t", "s">>, mapped_service |-> <<"I", "A", "M">>],
     [prefix |-> <<"s", "i", "g", "n", "i", "n">>, mapped_service |-> <<"I", "A", "M">>],
     [prefix |-> <<"r", "o", "l", "e", "s", "a", "n", "y", "w", "h", "e", "r", "e">>, mapped_service |-> <<"I", "A", "M">>],
     [prefix |-> <<"i", "n", "s", "p", "e", "c", "t", "o", "r", "2">>, mapped_service |-> <<"I", "n", "s", "p", "e", "c", "t", "o", "r", "V", "2">>],
     [prefix |-> <<"k", "m", "s">>, mapped_service |-> <<"K", "M", "S">>],
     [prefix |-> <<"k", "i", "n", "e", "s", "i", "s">>, mapped_service |-> <<"K", "i", "n", "e", "s", "i", "s">>],
     [prefix |-> <<"k", "i", "n", "e", "s", "i", "s", "a", "n", "a", "l", "y", "t", "i", "c", "s">>, mapped_service |-> <<"K", "i", "n", "e", "s", "i", "s", "A", "n", "a", "l", "y", "t", "i", "c", "s", "V", "2">>],
     [prefix |-> <<"a", "n", "a", "l", "y", "t", "i", "c", "s">>, mapped_service |-> <<"K", "i", "n", "e", "s", "i", "s", "A", "n", "a", "l", "y", "t", "i", "c", "s", "V", "2">>],
     [prefix |-> <<"f", "i", "r", "e", "h", "o", "s", "e">>, mapped_service |-> <<"K", "i", "n", "e", "s", "i", "s", "F", "i", "r", "e", "h", "o", "s", "e">>],
     [prefix |-> <<"l", "a", "m", "b", "d", "a">>, mapped_service |-> <<"L", "a", "m", "b", "d", "a">>],
     [prefix |-> <<"k", "a", "f", "k", "a">>, mapped_service |-> <<"M", "S", "K">>],
     [prefix |-> <<"n", "e", "t", "w", "o", "r", "k", "-", "f", "i", "r", "e", "w", "a", "l", "l">>, mapped_service |-> <<"N", "e", "t", "w", "o", "r", "k", "F", "i", "r", "e", "w", "a", "l", "l">>],
     [prefix |-> <<"n", "e", "t", "w", "o", "r", "k", "m", "a", "n", "a", "g", "e", "r">>, mapped_service |-> <<"N", "e", "t", "w", "o", "r", "k", "M", "a", "n", "a", "g", "e", "r">>],
     [prefix |-> <<"e", "s">>, mapped_service |-> <<"O", "p", "e", "n", "S", "e", "a", "r", "c", "h">>],
     [prefix |-> <<"a", "o", "s", "s">>, mapped_service |-> <<"O", "p", "e", "n", "S", "e", "a", "r", "c", "h">>],
     [prefix |-> <<"q", "u", "i", "c", "k", "s", "i", "g", "h", "t">>, mapped_service |-> <<"Q", "u", "i", "c", "k", "S", "i", "g", "h", "t">>],
     [prefix |-> <<"r", "d", "s">>, mapped_service |-> <<"R", "D", "S">>],
     [prefix |-> <<"r", "e", "d", "s", "h", "i", "f", "t">>, mapped_service |-> <<"R", "e", "d", "s", "h", "i", "f", "t">>],
     [prefix |-> <<"r", "o", "u", "t", "e", "5", "3">>, mapped_service |-> <<"R", "o", "u", "t", "e", "5", "3">>],
     [prefix |-> <<"r", "o", "u", "t", "e", "5", "3", "r", "e", "s", "o", "l", "v", "e", "r">>, mapped_service |-> <<"R", "o", "u", "t", "e", "5", "3", "R", "e", "s", "o", "l", "v", "e", "r">>],
     [prefix |-> <<"s", "3">>, mapped_service |-> <<"S", "3">>],
     [prefix |-> <<"s", "e", "s">>, mapped_service |-> <<"S", "E", "S">>],
     [prefix |-> <<"s", "n", "s">>, mapped_service |-> <<"S", "N", "S">>],
     [prefix |-> <<"s", "q", "s">>, mapped_service |-> <<"S", "Q", "S">>],
     [prefix |-> <<"s", "s", "m">>, mapped_service |-> <<"S", "S", "M">>],
     [prefix |-> <<"s", "e", "c", "r", "e", "t", "s", "m", "a", "n", "a", "g", "e", "r">>, mapped_service |-> <<"S", "e", "c", "r", "e", "t", "s", "M", "a", "n", "a", "g", "e", "r">>],
     [prefix |-> <<"s", "e", "r", "v", "i", "c", "e", "d", "i", "s", "c", "o", "v", "e", "r", "y">>, mapped_service |-> <<"S", "e", "r", "v", "i", "c", "e", "D", "i", "s", "c", "o", "v", "e", "r", "y">>],
     [prefix |-> <<"s", "t", "a", "t", "e", "s">>, mapped_service |-> <<"S", "t", "e", "p", "F", "u", "n", "c", "t", "i", "o", "n", "s">>],
     [prefix |-> <<"w", "a", "f", "v", "2">>, mapped_service |-> <<"W", "A", "F", "v", "2">>],
     [prefix |-> <<"w", "a", "f", "-", "r", "e", "g", "i", "o", "n", "a", "l">>, mapped_service |-> <<"W", "A", "F", "v", "2">>],
     [prefix |-> <<"o", "r", "g", "a", "n", "i", "z", "a", "t", "i", "o", "n", "s">>, mapped_service |-> <<"O", "r", "g", "a", "n", "i", "z", "a", "t", "i", "o", "n", "s">>],
     [prefix |-> <<"r", "e", "s", "o", "u", "r", "c", "e", "-", "g", "r", "o", "u", "p", "s">>, mapped_service |-> <<"R", "e", "s", "o", "u", "r", "c", "e", "G", "r", "o", "u", "p", "s">>],
     [prefix |-> <<"s", "u", "p", "p", "o", "r", "t">>, mapped_service |-> <<"S", "u", "p", "p", "o", "r", "t">>],
     [prefix |-> <<"t", "r", "a", "n", "s", "f", "e", "r">>, mapped_service |-> <<"T", "r", "a", "n", "s", "f", "e", "r", "F", "a", "m", "i", "l", "y">>],
     [prefix |-> <<"f", "s", "x">>, mapped_service |-> <<"F", "S", "x">>],
     [prefix |-> <<"c", "l", "o", "u", "d", "s", "h", "e", "l", "l">>, mapped_service |-> <<"C", "l", "o", "u", "d", "S", "h", "e", "l", "l">>],
     [prefix |-> <<"q">>, mapped_service |-> <<"Q">>] >>

\* The literal removed from an eventSource.
DomainSuffix == <<".", "a", "m", "a", "z", "o", "n", "a", "w", "s", ".", "c", "o", "m">>

\* The value of the header row of the result set.
HeaderRow == <<"e", "v", "e", "n", "t", "s", "o", "u", "r", "c", "e">>

(***************************************************************************)
(* normalize_eventSource                                                   *)
(***************************************************************************)
\* service = eventSource.replace(".amazonaws.com", "").lower()
service_of(eventSource) == lower(replace(eventSource, DomainSuffix))

\* service in service_prefixes
has_direct_mapping(service) ==
  \E i \in DOMAIN service_prefixes : service_prefixes[i].prefix = service

\* A plausible slip: the key is returned in place of the mapped value.
direct_mapping_key(service) == service

\* service_prefixes[service]
direct_mapping(service) ==
  service_prefixes[CHOOSE i \in DOMAIN service_prefixes :
                     service_prefixes[i].prefix = service].mapped_service

\* The positions, in table order, of the keys service starts with.
prefix_hits(service) ==
  {i \in DOMAIN service_prefixes : startswith(service, service_prefixes[i].prefix)}

\* for prefix, mapped_service in service_prefixes.items():
\*     if service.startswith(prefix): return mapped_service
first_prefix_match(service) ==
  LET hits == prefix_hits(service)
      first == CHOOSE i \in hits : \A j \in hits : i <= j
  IN  service_prefixes[first].mapped_service

\* A plausible slip: the no-match result is capitalised.
unmapped_capitalized(service) ==
  IF service = <<>> THEN service
  ELSE <<upper_char(Head(service))>> \o Tail(service)

\* If no mapping found, return the original service name
unmapped(service) == service

\* A plausible slip: the direct lookup is left out, the prefix scan decides.
normalize_eventSource_scan_only(eventSource) ==
  LET service == service_of(eventSource)
  IN  IF prefix_hits(service) # {} THEN first_prefix_match(service)
      ELSE unmapped(service)

\* A plausible slip: lower-casing is used for the lookups only, and the
\* no-match result keeps the casing of the input.
normalize_eventSource_keep_case(eventSource) ==
  LET service == service_of(eventSource)
  IN  IF has_direct_mapping(service) THEN direct_mapping(service)
      ELSE IF prefix_hits(service) # {} THEN first_prefix_match(service)
      ELSE replace(eventSource, DomainSuffix)

normalize_eventSource(eventSource) ==
  LET service == service_of(eventSource)
  IN  IF has_direct_mapping(service) THEN direct_mapping(service)
      ELSE IF prefix_hits(service) # {} THEN first_prefix_match(service)
      ELSE unmapped(service)

(***************************************************************************)
(* Inputs                                                                  *)
(***************************************************************************)
\* Service parts of the event sources the query may return; each is
\* delivered with the domain suffix appended.
ServiceParts ==
  { <<"e", "c", "2">>, <<"E", "C", "2">>, <<"s", "3">>, <<"l", "a", "m", "b", "d", "a">>,
    <<"c", "l", "o", "u", "d", "w", "a", "t", "c", "h">>, <<"m", "o", "n", "i", "t", "o", "r", "i", "n", "g">>, <<"l", "o", "g", "s">>,
    <<"i", "a", "m">>, <<"s", "t", "s">>, <<"s", "i", "g", "n", "i", "n">>, <<"r", "o", "l", "e", "s", "a", "n", "y", "w", "h", "e", "r", "e">>,
    <<"a", "c", "m">>, <<"a", "c", "m", "-", "p", "c", "a">>, <<"a", "c", "m", "-", "p", "c", "a", "2">>,
    <<"r", "o", "u", "t", "e", "5", "3">>, <<"r", "o", "u", "t", "e", "5", "3", "r", "e", "s", "o", "l", "v", "e", "r">>, <<"k", "i", "n", "e", "s", "i", "s", "a", "n", "a", "l", "y", "t", "i", "c", "s", "v", "2">>,
    <<"a", "p", "i", "g", "a", "t", "e", "w", "a", "y", "v", "2">>, <<"e", "l", "a", "s", "t", "i", "c", "l", "o", "a", "d", "b", "a", "l", "a", "n", "c", "i", "n", "g", "v", "2">>,
    <<"o", "p", "e", "n", "s", "e", "a", "r", "c", "h">>, <<"O", "p", "e", "n", "S", "e", "a", "r", "c", "h">>,
    <<"t", "o", "t", "a", "l", "l", "y", "n", "e", "w", "s", "e", "r", "v", "i", "c", "e">>, <<"u", "n", "k", "n", "o", "w", "n", "s", "v", "c">>, <<"s", "o", "m", "e", "-", "n", "e", "w", "-", "s", "e", "r", "v", "i", "c", "e">>,
    <<>> }

\* Irregular event sources: suffix missing or in another case.
IrregularEventSources ==
  { <<"e", "c", "2">>, <<"e", "c", "2", ".", "A", "M", "A", "Z", "O", "N", "A", "W", "S", ".", "C", "O", "M">>, <<"a", "c", "m", "-", "p", "c", "a", ".", "A", "M", "A", "Z", "O", "N", "A", "W", "S", ".", "C", "O", "M">>,
    <<"u", "n", "k", "n", "o", "w", "n", "s", "v", "c", ".", "A", "M", "A", "Z", "O", "N", "A", "W", "S", ".", "C", "O", "M">>, <<"U", "n", "k", "n", "o", "w", "n", "S", "v", "c", ".", "A", "m", "a", "z", "o", "n", "a", "w", "s", ".", "C", "o", "m">> }

RawEventSources ==
  {part \o DomainSuffix : part \in ServiceParts} \cup IrregularEventSources

\* Values of row['Data'][0]['VarCharValue'] the paginator may yield.
RowValues == RawEventSources \cup {HeaderRow}

\* Values of QueryExecution.Status.State.
QueryStates == {"QUEUED", "RUNNING", "SUCCEEDED", "FAILED", "CANCELLED"}

\* A local variable that has not been assigned yet.
Unbound == <<"unbound">>

(***************************************************************************)
(* main                                                                    *)
(***************************************************************************)
VARIABLES
  pc,                 \* position in main
  query_id,           \* whether --query-id was given
  status,             \* last State read by the polling loop ("" before)
  rows,               \* the rows the paginator has yielded so far
  eventSource,        \* loop local: the last row that was not the header
  service,            \* loop local: its normalised name
  services_in_use,
  approved_in_use,
  unapproved_in_use,
  not_in_use

vars == <<pc, query_id, status, rows, eventSource, service, services_in_use,
          approved_in_use, unapproved_in_use, not_in_use>>

approved_services_set == {approved_services[i] : i \in DOMAIN approved_services}

Init ==
  /\ pc = "start"
  /\ query_id \in BOOLEAN
  /\ status = ""
  /\ rows = <<>>
  /\ eventSource = Unbound
  /\ service = Unbound
  /\ services_in_use = {}
  /\ approved_in_use = {}
  /\ unapproved_in_use = {}
  /\ not_in_use = {}

\* if args.query_id: reuse the execution; else: execute_query, status = "RUNNING"
Start ==
  /\ pc = "start"
  /\ IF query_id
       THEN /\ pc' = "fetch"
            /\ status' = status
       ELSE /\ pc' = "poll"
            /\ status' = "RUNNING"
  /\ UNCHANGED <<query_id, rows, eventSource, service, services_in_use,
                 approved_in_use, unapproved_in_use, not_in_use>>

\* while status == "RUNNING": sleep(2); status = get_query_execution(...)
Poll ==
  /\ pc = "poll"
  /\ status = "RUNNING"
  /\ \E state \in QueryStates :
       /\ status' = state
       /\ pc' = IF state = "RUNNING" THEN "poll" ELSE "fetch"
  /\ UNCHANGED <<query_id, rows, eventSource, service, services_in_use,
                 approved_in_use, unapproved_in_use, not_in_use>>

\* One iteration of the loop over the rows of the result pages.
FetchRow ==
  /\ pc = "fetch"
  /\ Len(rows) < MaxRows
  /\ \E value \in RowValues :
       /\ rows' = Append(rows, value)
       /\ IF value # HeaderRow
            THEN /\ eventSource' = value
                 /\ service' = normalize_eventSource(value)
                 /\ services_in_use' = services_in_use \cup {service'}
            ELSE UNCHANGED <<eventSource, service, services_in_use>>
  /\ UNCHANGED <<pc, query_id, status, approved_in_use, unapproved_in_use, not_in_use>>

\* A plausible slip: the wrong set is subtracted.
not_in_use_of_unapproved(in_use) ==
  approved_services_set \ {s \in in_use : s \notin approved_services_set}

\* approved_in_use = services_in_use.intersection(approved_services_set)
approved_in_use_of(in_use) == in_use \cap approved_services_set

\* unapproved_in_use = {s for s in services_in_use if s not in approved_services_set}
unapproved_in_use_of(in_use) == {s \in in_use : s \notin approved_services_set}

\* not_in_use = approved_services_set - approved_in_use
not_in_use_of(in_use) == approved_services_set \ approved_in_use_of(in_use)

\* The paginator is exhausted: create the sets for comparison.
Classify ==
  /\ pc = "fetch"
  /\ approved_in_use' = approved_in_use_of(services_in_use)
  /\ unapproved_in_use' = unapproved_in_use_of(services_in_use)
  /\ not_in_use' = not_in_use_of(services_in_use)
  /\ pc' = "done"
  /\ UNCHANGED <<query_id, status, rows, eventSource, service, services_in_use>>

Next == Start \/ Poll \/ FetchRow \/ Classify

Spec == Init /\ [][Next]_vars

(***************************************************************************)
(* Properties                                                              *)
(***************************************************************************)
\* Positions of the rows that were not the header row.
ObservedRows == {i \in DOMAIN rows : rows[i] # HeaderRow}

\* The normalised names of the rows observed so far.
ObservedServices == {normalize_eventSource(rows[i]) : i \in ObservedRows}

\* No key of the rule table is a prefix of s (an exact match is a prefix too).
NoRuleMatches(s) ==
  \A i \in DOMAIN service_prefixes : ~startswith(s, service_prefixes[i].prefix)

\* The three sets of the printed report.
ReportEntries == approved_in_use \cup not_in_use \cup unapproved_in_use

\* C1: once the report is built, approved_in_use and not_in_use together are
\* the approved list, approved_in_use and unapproved_in_use together are the
\* normalised names of the observed rows, and the three sets are pairwise
\* disjoint.
C1_ReportPartition ==
  pc = "done" =>
    /\ approved_in_use \cup not_in_use = approved_services_set
    /\ approved_in_use \cup unapproved_in_use = ObservedServices
    /\ approved_in_use \cap not_in_use = {}
    /\ approved_in_use \cap unapproved_in_use = {}
    /\ not_in_use \cap unapproved_in_use = {}

C1_Witness ==
  /\ pc = "done"
  /\ Len(rows) = 2
  /\ approved_in_use = {<<"E", "C", "2">>}
  /\ unapproved_in_use = {<<"u", "n", "k", "n", "o", "w", "n", "s", "v", "c">>}

\* C2: a service in use whose name equals an approved name up to letter case
\* is reported as approved in use, not as unapproved.
C2_NoCaseMismatchUnapproved ==
  pc = "done" =>
    \A s \in services_in_use :
      (\E a \in approved_services_set : lower(a) = lower(s)) =>
        /\ s \in approved_in_use
        /\ s \notin unapproved_in_use

\* The default transform of the specification: hyphens removed, first
\* character capitalised, the rest unchanged.
DefaultTransform(s) ==
  LET t == SelectSeq(s, LAMBDA c : c # "-")
  IN  IF t = <<>> THEN t ELSE <<upper_char(Head(t))>> \o Tail(t)

C4_LongestPrefixWins ==
  LET s == service_of(eventSource)
      hits == prefix_hits(s)
      longest == CHOOSE i \in hits :
                   \A j \in hits :
                     Len(service_prefixes[j].prefix) <= Len(service_prefixes[i].prefix)
  IN  (eventSource # Unbound /\ ~has_direct_mapping(s) /\ Cardinality(hits) > 1) =>
        service = service_prefixes[longest].mapped_service

\* C5: an observed row that differs from the last one only in letter case
\* normalises to the same service.
C5_CaseInsensitive ==
  \A i \in ObservedRows :
    lower(rows[i]) = lower(eventSource) => normalize_eventSource(rows[i]) = service

\* C6: the empty service name appears in none of the three report sets.
C6_EmptyNameSkipped ==
  pc = "done" => <<>> \notin ReportEntries

\* C7: when the stripped, lower-cased input is a key of the rule table, the
\* result is the service mapped to that key.
C7_ExactMatchWins ==
  LET stripped == lower(replace(eventSource, DomainSuffix))
  IN  eventSource # Unbound =>
        \A i \in DOMAIN service_prefixes :
          service_prefixes[i].prefix = stripped =>
            service = service_prefixes[i].mapped_service

C7_Witness ==
  /\ eventSource = <<"r", "o", "u", "t", "e", "5", "3", "r", "e", "s", "o", "l", "v", "e", "r", ".", "a", "m", "a", "z", "o", "n", "a", "w", "s", ".", "c", "o", "m">>
  /\ service = <<"R", "o", "u", "t", "e", "5", "3", "R", "e", "s", "o", "l", "v", "e", "r">>

CloudWatchAliases ==
  {<<"m", "o", "n", "i", "t", "o", "r", "i", "n", "g", ".", "a", "m", "a", "z", "o", "n", "a", "w", "s", ".", "c", "o", "m">>, <<"l", "o", "g", "s", ".", "a", "m", "a", "z", "o", "n", "a", "w", "s", ".", "c", "o", "m">>, <<"c", "l", "o", "u", "d", "w", "a", "t", "c", "h", ".", "a", "m", "a", "z", "o", "n", "a", "w", "s", ".", "c", "o", "m">>}

IAMAliases ==
  {<<"i", "a", "m", ".", "a", "m", "a", "z", "o", "n", "a", "w", "s", ".", "c", "o", "m">>, <<"s", "t", "s", ".", "a", "m", "a", "z", "o", "n", "a", "w", "s", ".", "c", "o", "m">>, <<"s", "i", "g", "n", "i", "n", ".", "a", "m", "a", "z", "o", "n", "a", "w", "s", ".", "c", "o", "m">>,
   <<"r", "o", "l", "e", "s", "a", "n", "y", "w", "h", "e", "r", "e", ".", "a", "m", "a", "z", "o", "n", "a", "w", "s", ".", "c", "o", "m">>}

\* The report of a run all of whose observed rows are in aliases lists the
\* one service name and nothing else as in use.
CollapsesTo(aliases, name) ==
  /\ eventSource \in aliases => service = name
  /\ (pc = "done" /\ \E i \in ObservedRows : rows[i] \in aliases) =>
       name \in approved_in_use
  /\ (pc = "done" /\ ObservedRows # {} /\ \A i \in ObservedRows : rows[i] \in aliases) =>
       /\ approved_in_use = {name}
       /\ unapproved_in_use = {}

\* C8: the aliases of CloudWatch normalise to CloudWatch and the aliases of
\* IAM to IAM, and rows that are aliases of one service put one entry in the
\* report.
C8_AliasesCollapse ==
  /\ CollapsesTo(CloudWatchAliases, <<"C", "l", "o", "u", "d", "W", "a", "t", "c", "h">>)
  /\ CollapsesTo(IAMAliases, <<"I", "A", "M">>)

C8_Witness ==
  /\ pc = "done"
  /\ rows = <<<<"m", "o", "n", "i", "t", "o", "r", "i", "n", "g", ".", "a", "m", "a", "z", "o", "n", "a", "w", "s", ".", "c", "o", "m">>, <<"l", "o", "g", "s", ".", "a", "m", "a", "z", "o", "n", "a", "w", "s", ".", "c", "o", "m">>>>
  /\ approved_in_use = {<<"C", "l", "o", "u", "d", "W", "a", "t", "c", "h">>}
  /\ unapproved_in_use = {}

\* C9: when the query was started by this run, result pages are fetched only
\* after a poll has returned a terminal status.
C9_FetchOnlyAfterTerminal ==
  (~query_id /\ pc \in {"fetch", "done"}) =>
    status \in {"SUCCEEDED", "FAILED", "CANCELLED"}

\* C10: a name reported as approved in use came from a hit in the rule
\* table, and the approved names that are no value of the table are always
\* reported as not in use.
C10_ApprovedOnlyByRuleHit ==
  /\ LET stripped == lower(replace(eventSource, DomainSuffix))
     IN  (eventSource # Unbound /\ service \in approved_services_set) =>
           ~NoRuleMatches(stripped)
  /\ pc = "done" =>
       /\ \A s \in approved_in_use :
            \E i \in DOMAIN service_prefixes : service_prefixes[i].mapped_service = s
       /\ <<"A", "p", "i", "G", "a", "t", "e", "w", "a", "y", "V", "2">> \in not_in_use
       /\ <<"E", "l", "a", "s", "t", "i", "c", "L", "o", "a", "d", "B", "a", "l", "a", "n", "c", "i", "n", "g", "V", "2">> \in not_in_use

C10_Witness ==
  /\ pc = "done"
  /\ rows = <<<<"a", "p", "i", "g", "a", "t", "e", "w", "a", "y", "v", "2", ".", "a", "m", "a", "z", "o", "n", "a", "w", "s", ".", "c", "o", "m">>, <<"e", "l", "a", "s", "t", "i", "c", "l", "o", "a", "d", "b", "a", "l", "a", "n", "c", "i", "n", "g", "v", "2", ".", "a", "m", "a", "z", "o", "n", "a", "w", "s", ".", "c", "o", "m">>>>
  /\ approved_in_use = {<<"A", "p", "i", "G", "a", "t", "e", "w", "a", "y">>, <<"E", "C", "2">>}
  /\ <<"A", "p", "i", "G", "a", "t", "e", "w", "a", "y", "V", "2">> \in not_in_use

=============================================================================
